---- MODULE Spec2Model ----
(***************************************************************************)
(* Model of examples/template_automation.py: the template client, the      *)
(* four tier deployers of InfrastructureDeployer and main().               *)
(*                                                                         *)
(* The program is one sequential process.  Its position is pc, the loop    *)
(* index of the tier being deployed is idx, and every blocking HTTP call   *)
(* is split in two steps: the request leaves (it is appended to calls) and *)
(* the Template Service answers (the outcome is appended to returns) or    *)
(* the call raises.  Python dicts are functions over string keys, None is  *)
(* a distinguished value, and the log is the sequence of records written   *)
(* through logger.                                                         *)
(***************************************************************************)
EXTENDS Integers, Sequences, FiniteSets, TLC

VARIABLES infrastructure, pc, idx, service_ips, calls, returns, log, exc

vars == <<infrastructure, pc, idx, service_ips, calls, returns, log, exc>>

-----------------------------------------------------------------------------
(* Bounds of the model *)

\* Largest number of entities in a topology, all tiers together.
MaxEntities == 2

\* Largest number of rules one instantiate response carries.
MaxRules == 3

-----------------------------------------------------------------------------
(* Python values *)

None == "<None>"

\* dict.get(key, default)
Get(d, key, default) == IF key \in DOMAIN d THEN d[key] ELSE default

\* Python truthiness of a str-or-None argument
Truthy(s) == s # None /\ s # ""

RECURSIVE JoinFrom(_, _, _)
JoinFrom(sep, strs, k) ==
    IF k > Len(strs) THEN ""
    ELSE IF k = Len(strs) THEN strs[k]
    ELSE strs[k] \o sep \o JoinFrom(sep, strs, k + 1)

\* sep.join(strs)
Join(sep, strs) == JoinFrom(sep, strs, 1)

-----------------------------------------------------------------------------
(* Topologies: the inputs of a run *)

\* The switches of main()'s literal, and a topology whose switches are "".
NamedSwitches == <<"ls-web", "ls-app", "ls-data", "ls-secure">>
EmptySwitches == <<"", "", "", "">>
SwitchChoices == {NamedSwitches, EmptySwitches}

\* The entity at position k of its tier is named after k, which keeps names
\* unique within a tier.  A server either leaves every optional key out or
\* sets them all.
ServersAt(k) ==
    LET base == [name |-> "web-" \o ToString(k), ip |-> "10.0.1.1" \o ToString(k)]
    IN  { base,
          base @@ [allowed_sources |-> "192.168.0.0/16", enable_ssh |-> FALSE,
                   ssh_sources |-> "10.9.9.0/24"] }

ServiceName(k) == "svc-" \o ToString(k)
ServiceIp(k) == "10.0.2.1" \o ToString(k)

\* Dependency lists: names of services before and behind in the tier, and
\* "ghost", which names no service of any tier.
DepLists ==
    { <<ServiceName(2), "ghost", ServiceName(1)>>,
      <<ServiceName(1), ServiceName(2)>>,
      <<"ghost">> }

ServicesAt(k) ==
    LET base == [name |-> ServiceName(k), ip |-> ServiceIp(k)]
    IN  {base} \cup
        { base @@ [port |-> 8080 + k, dependencies |-> d] : d \in DepLists }

DbTypes == {"mysql", "postgresql", "mongodb", "redis", "oracle"}

\* A database of each engine type that leaves the optional keys out, and a
\* postgresql that sets them all.
DatabasesAt(k) ==
    LET base == [name |-> "db-" \o ToString(k), ip |-> "10.0.3.1" \o ToString(k),
                 app_subnet |-> "10.0.2.0/24"]
    IN  { base @@ [type |-> t] : t \in DbTypes } \cup
        { base @@ [type |-> "postgresql", port |-> 5433,
                   backup_server |-> "10.0.100.50", enable_replication |-> TRUE,
                   replicas |-> <<"10.0.3.11", "10.0.3.12">>] }

ResourcesAt(k) ==
    LET base == [name |-> "res-" \o ToString(k), ip |-> "10.0.5.1" \o ToString(k),
                 port |-> 443]
    IN  { base @@ [authorized_users |-> <<"10.0.100.10", "10.0.100.11">>],
          base @@ [authorized_users |-> <<>>, require_encryption |-> FALSE] }

EntitiesAt(t, k) ==
    CASE t = 1 -> ServersAt(k)
      [] t = 2 -> ServicesAt(k)
      [] t = 3 -> DatabasesAt(k)
      [] t = 4 -> ResourcesAt(k)

RECURSIVE EntityLists(_, _)
EntityLists(t, n) ==
    IF n = 0 THEN {<<>>}
    ELSE { Append(s, e) : s \in EntityLists(t, n - 1), e \in EntitiesAt(t, n) }

Topology(sw, w, a, d, s) ==
    [web_tier         |-> [switch |-> sw[1], servers |-> w],
     app_tier         |-> [switch |-> sw[2], services |-> a],
     data_tier        |-> [switch |-> sw[3], databases |-> d],
     secure_resources |-> [switch |-> sw[4], resources |-> s]]

Sizes ==
    { n \in [1..4 -> 0..MaxEntities] : n[1] + n[2] + n[3] + n[4] <= MaxEntities }

Topologies ==
    UNION { { Topology(sw, w, a, d, s) :
                sw \in SwitchChoices,
                w \in EntityLists(1, n[1]), a \in EntityLists(2, n[2]),
                d \in EntityLists(3, n[3]), s \in EntityLists(4, n[4]) } :
            n \in Sizes }

-----------------------------------------------------------------------------
(* The Template Service: what a call can come back with *)

ValidationResults ==
    { [valid |-> TRUE, errors |-> <<>>],
      [valid |-> FALSE, errors |-> <<"variable rejected">>] }

Rules(n) == [k \in 1..n |-> [id |-> k]]

InstantiationResults ==
    { [instance |-> [rules |-> Rules(n)]] : n \in {1, MaxRules} }

\* What raise_for_status() and requests.post() raise: HTTPError, ConnectionError
\* and the like are all RequestExceptions, and nothing in the program tells
\* them apart.
ServiceErrors == {"RequestException"}

-----------------------------------------------------------------------------
(* OVNCPTemplateClient *)

\* The POST of validate_template
validate_template(template_id, variables) ==
    [url  |-> "/api/v1/templates/validate",
     json |-> [template_id |-> template_id, variables |-> variables]]

\* The POST of instantiate_template
instantiate_template(template_id, variables, target_switch, dry_run) ==
    LET data == [template_id |-> template_id, variables |-> variables,
                 dry_run |-> dry_run]
    IN  [url  |-> "/api/v1/templates/instantiate",
         json |-> IF Truthy(target_switch)
                  THEN data @@ [target_switch |-> target_switch]
                  ELSE data]

-----------------------------------------------------------------------------
(* InfrastructureDeployer: the variables of each template *)

\* The dict passed to validate_template in deploy_web_tier
WebValidateVariables(server) ==
    [server_ip       |-> server.ip,
     allowed_sources |-> Get(server, "allowed_sources", "0.0.0.0/0"),
     enable_ssh      |-> Get(server, "enable_ssh", TRUE),
     ssh_sources     |-> Get(server, "ssh_sources", "10.0.100.0/24")]

\* Mutant of WebInstantiateVariables: enable_ssh defaults to False here.
WebInstantiateVariables_ssh_off(server) ==
    [server_ip       |-> server.ip,
     allowed_sources |-> Get(server, "allowed_sources", "0.0.0.0/0"),
     enable_ssh      |-> Get(server, "enable_ssh", FALSE),
     ssh_sources     |-> Get(server, "ssh_sources", "10.0.100.0/24")]

\* The dict passed to instantiate_template in deploy_web_tier
WebInstantiateVariables(server) ==
    [server_ip       |-> server.ip,
     allowed_sources |-> Get(server, "allowed_sources", "0.0.0.0/0"),
     enable_ssh      |-> Get(server, "enable_ssh", TRUE),
     ssh_sources     |-> Get(server, "ssh_sources", "10.0.100.0/24")]

\* {s['name']: s['ip'] for s in services}: a later service of the same name
\* overwrites an earlier one.
ServiceIps(services) ==
    [ n \in { services[k].name : k \in DOMAIN services } |->
        LET last == CHOOSE k \in DOMAIN services :
                        /\ services[k].name = n
                        /\ \A j \in DOMAIN services :
                               services[j].name = n => j <= k
        IN  services[last].ip ]

\* Mutant of AllowedIpsFrom: each IP is put in front of the list.
RECURSIVE AllowedIpsFrom_prepending(_, _, _)
AllowedIpsFrom_prepending(deps, ips, k) ==
    IF k > Len(deps) THEN <<>>
    ELSE IF deps[k] \in DOMAIN ips
         THEN AllowedIpsFrom_prepending(deps, ips, k + 1) \o <<ips[deps[k]]>>
         ELSE AllowedIpsFrom_prepending(deps, ips, k + 1)

\* The loop that converts dependency names to IPs, from dependency k on.
RECURSIVE AllowedIpsFrom(_, _, _)
AllowedIpsFrom(deps, ips, k) ==
    IF k > Len(deps) THEN <<>>
    ELSE IF deps[k] \in DOMAIN ips
         THEN <<ips[deps[k]]>> \o AllowedIpsFrom(deps, ips, k + 1)
         ELSE AllowedIpsFrom(deps, ips, k + 1)

AllowedIps(service, ips) ==
    AllowedIpsFrom(Get(service, "dependencies", <<>>), ips, 1)

MicroserviceVariables(service, ips) ==
    [service_name      |-> service.name,
     service_ip        |-> service.ip,
     service_port      |-> Get(service, "port", 8080),
     allowed_services  |-> Join(",", AllowedIps(service, ips)),
     monitoring_subnet |-> "10.0.200.0/24"]

default_ports ==
    [mysql |-> 3306, postgresql |-> 5432, mongodb |-> 27017, redis |-> 6379]

\* Mutant of DbPort: an unknown engine type falls back to postgresql's port.
DbPort_postgresql_fallback(db) == Get(db, "port", Get(default_ports, db.type, 5432))


DbPort(db) == Get(db, "port", Get(default_ports, db.type, 3306))

DatabaseVariables(db) ==
    [db_ip              |-> db.ip,
     db_port            |-> DbPort(db),
     app_subnet         |-> db.app_subnet,
     backup_server      |-> Get(db, "backup_server", None),
     enable_replication |-> Get(db, "enable_replication", FALSE),
     replica_ips        |-> Join(",", Get(db, "replicas", <<>>))]

ZeroTrustVariables(resource) ==
    [resource_ip        |-> resource.ip,
     resource_port      |-> resource.port,
     authorized_users   |-> Join(",", resource.authorized_users),
     require_encryption |-> Get(resource, "require_encryption", TRUE)]

-----------------------------------------------------------------------------
(* State *)

servers   == infrastructure.web_tier.servers
services  == infrastructure.app_tier.services
databases == infrastructure.data_tier.databases
resources == infrastructure.secure_resources.resources

\* logger.info / logger.error: the format of the message and its arguments
Logged(level, fmt, args) == Append(log, [level |-> level, fmt |-> fmt, args |-> args])

\* A request leaves for the Template Service.  tier and entity say whose
\* request it is; they are not part of what is sent.
Sent(op, tier, request) ==
    Append(calls, [op |-> op, tier |-> tier, entity |-> idx,
                   url |-> request.url, json |-> request.json])

\* The call in progress returns response.json()
Returned(result) == Append(returns, [raised |-> None, json |-> result])

Outstanding == Len(calls) - Len(returns)

Init ==
    /\ infrastructure \in Topologies
    /\ pc = "main"
    /\ idx = 0
    /\ service_ips = <<>>
    /\ calls = <<>>
    /\ returns = <<>>
    /\ log = <<>>
    /\ exc = None

-----------------------------------------------------------------------------
(* main(), up to the first tier *)

main_begin ==
    /\ pc = "main"
    /\ log' = Logged("INFO", "Starting infrastructure deployment...", <<>>)
    /\ pc' = "deploy_web_tier"
    /\ UNCHANGED <<infrastructure, idx, service_ips, calls, returns, exc>>

-----------------------------------------------------------------------------
(* deploy_web_tier *)

deploy_web_tier_begin ==
    /\ pc = "deploy_web_tier"
    /\ log' = Logged("INFO", "Deploying web tier on switch {}",
                     <<infrastructure.web_tier.switch>>)
    /\ idx' = 1
    /\ pc' = "web_for"
    /\ UNCHANGED <<infrastructure, service_ips, calls, returns, exc>>

\* Mutant of web_validate_call: the instantiate request is sent along with
\* the validate request, before the validation has come back.
web_validate_call_pipelined ==
    /\ pc = "web_for"
    /\ idx <= Len(servers)
    /\ log' = Logged("INFO", "Configuring web server {} ({})",
                     <<servers[idx].name, servers[idx].ip>>)
    /\ calls' = Sent("validate", 1,
                     validate_template("web-server", WebValidateVariables(servers[idx])))
                \o <<[op |-> "instantiate", tier |-> 1, entity |-> idx,
                      url |-> "/api/v1/templates/instantiate",
                      json |-> [template_id |-> "web-server",
                                variables |-> WebInstantiateVariables(servers[idx]),
                                dry_run |-> FALSE]]>>
    /\ pc' = "web_validate"
    /\ UNCHANGED <<infrastructure, idx, service_ips, returns, exc>>


web_validate_call ==
    /\ pc = "web_for"
    /\ idx <= Len(servers)
    /\ log' = Logged("INFO", "Configuring web server {} ({})",
                     <<servers[idx].name, servers[idx].ip>>)
    /\ calls' = Sent("validate", 1,
                     validate_template("web-server", WebValidateVariables(servers[idx])))
    /\ pc' = "web_validate"
    /\ UNCHANGED <<infrastructure, idx, service_ips, returns, exc>>

\* Mutant of web_validate_return: the failure is logged but the loop does
\* not continue with the next server.
web_validate_return_unchecked ==
    /\ pc = "web_validate"
    /\ \E validation \in ValidationResults :
        /\ returns' = Returned(validation)
        /\ log' = IF ~validation.valid
                  THEN Logged("ERROR", "Validation failed for {}: {}",
                              <<servers[idx].name, validation.errors>>)
                  ELSE log
    /\ pc' = "web_deploy"
    /\ UNCHANGED <<infrastructure, idx, service_ips, calls, exc>>


\* Mutant of web_validate_return: a failed validation leaves the loop
\* (break) where the code goes on with the next server (continue).
web_validate_return_break ==
    /\ pc = "web_validate"
    /\ \E validation \in ValidationResults :
        /\ returns' = Returned(validation)
        /\ IF ~validation.valid
           THEN /\ log' = Logged("ERROR", "Validation failed for {}: {}",
                                 <<servers[idx].name, validation.errors>>)
                /\ idx' = Len(servers) + 1
                /\ pc' = "web_for"
           ELSE /\ pc' = "web_deploy"
                /\ UNCHANGED <<log, idx>>
    /\ UNCHANGED <<infrastructure, service_ips, calls, exc>>


web_validate_return ==
    /\ pc = "web_validate"
    /\ \E validation \in ValidationResults :
        /\ returns' = Returned(validation)
        /\ IF ~validation.valid
           THEN /\ log' = Logged("ERROR", "Validation failed for {}: {}",
                                 <<servers[idx].name, validation.errors>>)
                /\ idx' = idx + 1
                /\ pc' = "web_for"
           ELSE /\ pc' = "web_deploy"
                /\ UNCHANGED <<log, idx>>
    /\ UNCHANGED <<infrastructure, service_ips, calls, exc>>

web_instantiate_call ==
    /\ pc = "web_deploy"
    /\ calls' = Sent("instantiate", 1,
                     instantiate_template("web-server",
                                          WebInstantiateVariables(servers[idx]),
                                          infrastructure.web_tier.switch, FALSE))
    /\ pc' = "web_instantiate"
    /\ UNCHANGED <<infrastructure, idx, service_ips, returns, log, exc>>

\* Mutant of web_instantiate_return: the length of result['instance'] is
\* logged, not that of its rules.
web_instantiate_return_miscounted ==
    /\ pc = "web_instantiate"
    /\ \E result \in InstantiationResults :
        /\ returns' = Returned(result)
        /\ log' = Logged("INFO", "Created {} rules for {}",
                         <<Cardinality(DOMAIN result.instance), servers[idx].name>>)
    /\ idx' = idx + 1
    /\ pc' = "web_for"
    /\ UNCHANGED <<infrastructure, service_ips, calls, exc>>


web_instantiate_return ==
    /\ pc = "web_instantiate"
    /\ \E result \in InstantiationResults :
        /\ returns' = Returned(result)
        /\ log' = Logged("INFO", "Created {} rules for {}",
                         <<Len(result.instance.rules), servers[idx].name>>)
    /\ idx' = idx + 1
    /\ pc' = "web_for"
    /\ UNCHANGED <<infrastructure, service_ips, calls, exc>>

\* Mutant of deploy_web_tier_end: main() calls deploy_databases next.
deploy_web_tier_end_databases_next ==
    /\ pc = "web_for"
    /\ idx > Len(servers)
    /\ pc' = "deploy_databases"
    /\ UNCHANGED <<infrastructure, idx, service_ips, calls, returns, log, exc>>


deploy_web_tier_end ==
    /\ pc = "web_for"
    /\ idx > Len(servers)
    /\ pc' = "deploy_microservices"
    /\ UNCHANGED <<infrastructure, idx, service_ips, calls, returns, log, exc>>

-----------------------------------------------------------------------------
(* deploy_microservices *)

deploy_microservices_begin ==
    /\ pc = "deploy_microservices"
    /\ log' = Logged("INFO", "Deploying microservices on switch {}",
                     <<infrastructure.app_tier.switch>>)
    /\ service_ips' = ServiceIps(services)
    /\ idx' = 1
    /\ pc' = "ms_for"
    /\ UNCHANGED <<infrastructure, calls, returns, exc>>

\* Mutant of ms_instantiate_call: the name-to-IP map is filled as the loop
\* goes, so it holds the services up to the current one only.
ms_instantiate_call_incremental ==
    /\ pc = "ms_for"
    /\ idx <= Len(services)
    /\ log' = Logged("INFO", "Configuring service {} with dependencies: {}",
                     <<services[idx].name, Get(services[idx], "dependencies", <<>>)>>)
    /\ service_ips' = ServiceIps(SubSeq(services, 1, idx))
    /\ calls' = Sent("instantiate", 2,
                     instantiate_template("microservice",
                                          MicroserviceVariables(services[idx], service_ips'),
                                          infrastructure.app_tier.switch, FALSE))
    /\ pc' = "ms_instantiate"
    /\ UNCHANGED <<infrastructure, idx, returns, exc>>


ms_instantiate_call ==
    /\ pc = "ms_for"
    /\ idx <= Len(services)
    /\ log' = Logged("INFO", "Configuring service {} with dependencies: {}",
                     <<services[idx].name, Get(services[idx], "dependencies", <<>>)>>)
    /\ calls' = Sent("instantiate", 2,
                     instantiate_template("microservice",
                                          MicroserviceVariables(services[idx], service_ips),
                                          infrastructure.app_tier.switch, FALSE))
    /\ pc' = "ms_instantiate"
    /\ UNCHANGED <<infrastructure, idx, service_ips, returns, exc>>

ms_instantiate_return ==
    /\ pc = "ms_instantiate"
    /\ \E result \in InstantiationResults :
        /\ returns' = Returned(result)
        /\ log' = Logged("INFO", "Created {} rules for {}",
                         <<Len(result.instance.rules), services[idx].name>>)
    /\ idx' = idx + 1
    /\ pc' = "ms_for"
    /\ UNCHANGED <<infrastructure, service_ips, calls, exc>>

deploy_microservices_end ==
    /\ pc = "ms_for"
    /\ idx > Len(services)
    /\ pc' = "deploy_databases"
    /\ UNCHANGED <<infrastructure, idx, service_ips, calls, returns, log, exc>>

-----------------------------------------------------------------------------
(* deploy_databases *)

deploy_databases_begin ==
    /\ pc = "deploy_databases"
    /\ log' = Logged("INFO", "Deploying databases on switch {}",
                     <<infrastructure.data_tier.switch>>)
    /\ idx' = 1
    /\ pc' = "db_for"
    /\ UNCHANGED <<infrastructure, service_ips, calls, returns, exc>>

\* Mutant of db_instantiate_call: the switch of the web tier is passed on.
db_instantiate_call_web_switch ==
    /\ pc = "db_for"
    /\ idx <= Len(databases)
    /\ log' = Logged("INFO", "Configuring database {} ({})",
                     <<databases[idx].name, databases[idx].type>>)
    /\ calls' = Sent("instantiate", 3,
                     instantiate_template("database-server",
                                          DatabaseVariables(databases[idx]),
                                          infrastructure.web_tier.switch, FALSE))
    /\ pc' = "db_instantiate"
    /\ UNCHANGED <<infrastructure, idx, service_ips, returns, exc>>


db_instantiate_call ==
    /\ pc = "db_for"
    /\ idx <= Len(databases)
    /\ log' = Logged("INFO", "Configuring database {} ({})",
                     <<databases[idx].name, databases[idx].type>>)
    /\ calls' = Sent("instantiate", 3,
                     instantiate_template("database-server",
                                          DatabaseVariables(databases[idx]),
                                          infrastructure.data_tier.switch, FALSE))
    /\ pc' = "db_instantiate"
    /\ UNCHANGED <<infrastructure, idx, service_ips, returns, exc>>

db_instantiate_return ==
    /\ pc = "db_instantiate"
    /\ \E result \in InstantiationResults :
        /\ returns' = Returned(result)
        /\ log' = Logged("INFO", "Created {} rules for {}",
                         <<Len(result.instance.rules), databases[idx].name>>)
    /\ idx' = idx + 1
    /\ pc' = "db_for"
    /\ UNCHANGED <<infrastructure, service_ips, calls, exc>>

deploy_databases_end ==
    /\ pc = "db_for"
    /\ idx > Len(databases)
    /\ pc' = "deploy_zero_trust_resources"
    /\ UNCHANGED <<infrastructure, idx, service_ips, calls, returns, log, exc>>

-----------------------------------------------------------------------------
(* deploy_zero_trust_resources *)

deploy_zero_trust_resources_begin ==
    /\ pc = "deploy_zero_trust_resources"
    /\ log' = Logged("INFO", "Deploying zero-trust policies on switch {}",
                     <<infrastructure.secure_resources.switch>>)
    /\ idx' = 1
    /\ pc' = "zt_for"
    /\ UNCHANGED <<infrastructure, service_ips, calls, returns, exc>>

zt_instantiate_call ==
    /\ pc = "zt_for"
    /\ idx <= Len(resources)
    /\ log' = Logged("INFO", "Securing resource {} with zero-trust policy",
                     <<resources[idx].name>>)
    /\ calls' = Sent("instantiate", 4,
                     instantiate_template("zero-trust",
                                          ZeroTrustVariables(resources[idx]),
                                          infrastructure.secure_resources.switch, FALSE))
    /\ pc' = "zt_instantiate"
    /\ UNCHANGED <<infrastructure, idx, service_ips, returns, exc>>

\* Mutant of zt_instantiate_return: the loop steps over the next resource.
zt_instantiate_return_skipping ==
    /\ pc = "zt_instantiate"
    /\ \E result \in InstantiationResults :
        /\ returns' = Returned(result)
        /\ log' = Logged("INFO", "Created {} rules for {}",
                         <<Len(result.instance.rules), resources[idx].name>>)
    /\ idx' = idx + 2
    /\ pc' = "zt_for"
    /\ UNCHANGED <<infrastructure, service_ips, calls, exc>>


zt_instantiate_return ==
    /\ pc = "zt_instantiate"
    /\ \E result \in InstantiationResults :
        /\ returns' = Returned(result)
        /\ log' = Logged("INFO", "Created {} rules for {}",
                         <<Len(result.instance.rules), resources[idx].name>>)
    /\ idx' = idx + 1
    /\ pc' = "zt_for"
    /\ UNCHANGED <<infrastructure, service_ips, calls, exc>>

deploy_zero_trust_resources_end ==
    /\ pc = "zt_for"
    /\ idx > Len(resources)
    /\ pc' = "completed"
    /\ UNCHANGED <<infrastructure, idx, service_ips, calls, returns, log, exc>>

-----------------------------------------------------------------------------
(* main(): the end of the try block and its except clause *)

AwaitingResponse ==
    pc \in {"web_validate", "web_instantiate", "ms_instantiate",
            "db_instantiate", "zt_instantiate"}

\* Mutant of client_raises: the deployer catches the exception and goes on
\* with the next entity of the tier.
client_raises_handled ==
    /\ pc \in {"web_validate", "web_instantiate", "ms_instantiate",
               "db_instantiate", "zt_instantiate"}
    /\ \E e \in ServiceErrors :
        /\ returns' = Append(returns, [raised |-> e, json |-> None])
        /\ log' = Logged("ERROR", "Deployment failed: {}", <<e>>)
    /\ idx' = idx + 1
    /\ pc' = CASE pc \in {"web_validate", "web_instantiate"} -> "web_for"
               [] pc = "ms_instantiate" -> "ms_for"
               [] pc = "db_instantiate" -> "db_for"
               [] pc = "zt_instantiate" -> "zt_for"
    /\ UNCHANGED <<infrastructure, service_ips, calls, exc>>

\* Mutant of client_raises: the first request that fails is sent once more.
client_raises_retried ==
    /\ AwaitingResponse
    /\ \A k \in 1..Len(returns) : returns[k].raised = None
    /\ \E e \in ServiceErrors :
        returns' = Append(returns, [raised |-> e, json |-> None])
    /\ calls' = Append(calls, calls[Len(calls)])
    /\ UNCHANGED <<infrastructure, pc, idx, service_ips, log, exc>>

\* requests.post() or raise_for_status() raises in the call in progress.  No
\* deployer method has a handler, so control passes to main()'s except clause.
client_raises ==
    /\ AwaitingResponse
    /\ \E e \in ServiceErrors :
        /\ returns' = Append(returns, [raised |-> e, json |-> None])
        /\ exc' = e
    /\ pc' = "except"
    /\ UNCHANGED <<infrastructure, idx, service_ips, calls, log>>

\* Mutant of main_completed: a run in which a validation failed is reported
\* as failed.
main_completed_unless_rejected ==
    /\ pc = "completed"
    /\ log' = IF \E n \in 1..Len(log) : log[n].fmt = "Validation failed for {}: {}"
              THEN Logged("ERROR", "Deployment failed: {}", <<"validation">>)
              ELSE Logged("INFO", "Infrastructure deployment completed successfully!", <<>>)
    /\ pc' = "returned"
    /\ UNCHANGED <<infrastructure, idx, service_ips, calls, returns, exc>>


main_completed ==
    /\ pc = "completed"
    /\ log' = Logged("INFO", "Infrastructure deployment completed successfully!", <<>>)
    /\ pc' = "returned"
    /\ UNCHANGED <<infrastructure, idx, service_ips, calls, returns, exc>>

\* Mutant of main_except: the except clause logs and does not re-raise.
main_except_swallowed ==
    /\ pc = "except"
    /\ log' = Logged("ERROR", "Deployment failed: {}", <<exc>>)
    /\ pc' = "returned"
    /\ UNCHANGED <<infrastructure, idx, service_ips, calls, returns, exc>>

\* except Exception as e: log and re-raise; the exception leaves main()
main_except ==
    /\ pc = "except"
    /\ log' = Logged("ERROR", "Deployment failed: {}", <<exc>>)
    /\ pc' = "raised"
    /\ UNCHANGED <<infrastructure, idx, service_ips, calls, returns, exc>>

Next ==
    \/ main_begin
    \/ deploy_web_tier_begin
    \/ web_validate_call
    \/ web_validate_return
    \/ web_instantiate_call
    \/ web_instantiate_return
    \/ deploy_web_tier_end
    \/ deploy_microservices_begin
    \/ ms_instantiate_call
    \/ ms_instantiate_return
    \/ deploy_microservices_end
    \/ deploy_databases_begin
    \/ db_instantiate_call
    \/ db_instantiate_return
    \/ deploy_databases_end
    \/ deploy_zero_trust_resources_begin
    \/ zt_instantiate_call
    \/ zt_instantiate_return
    \/ deploy_zero_trust_resources_end
    \/ client_raises
    \/ main_completed
    \/ main_except

Spec == Init /\ [][Next]_vars

\* The Template Service answers every request (or the call raises) and the
\* interpreter runs every statement it reaches.
FairSpec == Spec /\ WF_vars(Next)

-----------------------------------------------------------------------------
(* Reading a run off its calls, returns and log *)

Tiers == 1..4

EntitiesOf(t) ==
    CASE t = 1 -> servers
      [] t = 2 -> services
      [] t = 3 -> databases
      [] t = 4 -> resources

CallIds == 1..Len(calls)

HasReturned(k) == k <= Len(returns) /\ returns[k].raised = None
HasRaised(k) == k <= Len(returns) /\ returns[k].raised # None

IsValidate(k, t, e) ==
    calls[k].op = "validate" /\ calls[k].tier = t /\ calls[k].entity = e
IsInstantiate(k, t, e) ==
    calls[k].op = "instantiate" /\ calls[k].tier = t /\ calls[k].entity = e

ValidatedAs(k, v) ==
    calls[k].op = "validate" /\ HasReturned(k) /\ returns[k].json.valid = v

NoServiceError == \A k \in CallIds : ~HasRaised(k)

\* The entities of tier t for which some client call was made
Attempted(t) == { calls[k].entity : k \in { j \in CallIds : calls[j].tier = t } }

InstantiateIds(t) ==
    { k \in CallIds : calls[k].op = "instantiate" /\ calls[k].tier = t }

\* The entities of tier t whose validate came back with valid = false
Rejected(t) ==
    { e \in 1..Len(EntitiesOf(t)) :
        \E k \in CallIds : IsValidate(k, t, e) /\ ValidatedAs(k, FALSE) }

\* The tiers in the order their "Deploying ..." line was logged
TierStartFmts ==
    <<"Deploying web tier on switch {}", "Deploying microservices on switch {}",
      "Deploying databases on switch {}", "Deploying zero-trust policies on switch {}">>

TierStarts ==
    LET starts == SelectSeq(log, LAMBDA l : \E t \in Tiers : l.fmt = TierStartFmts[t])
    IN  [ n \in 1..Len(starts) |-> CHOOSE t \in Tiers : starts[n].fmt = TierStartFmts[t] ]

CompletedFmt == "Infrastructure deployment completed successfully!"
FailedFmt == "Deployment failed: {}"
CreatedFmt == "Created {} rules for {}"
RejectedFmt == "Validation failed for {}: {}"

LogIds(fmt) == { n \in 1..Len(log) : log[n].fmt = fmt }

\* Tier t has been left: the next tier has started, or main() is past the
\* last deployer call.
TierLeft(t) ==
    \/ Len(TierStarts) > t
    \/ t = 4 /\ pc \in {"completed", "returned"}

RECURSIVE Sum(_, _)
Sum(f, S) ==
    IF S = {} THEN 0
    ELSE LET x == CHOOSE y \in S : TRUE IN f[x] + Sum(f, S \ {x})

-----------------------------------------------------------------------------
(* C1 *)

\* C1: in every tier, an entity is instantiated only after a validate call
\* for that same entity has returned valid = true earlier in the run.
C1_ValidationGatesEveryTier ==
    \A k \in CallIds :
        calls[k].op = "instantiate" =>
            \E j \in 1..(k - 1) :
                /\ IsValidate(j, calls[k].tier, calls[k].entity)
                /\ ValidatedAs(j, TRUE)

-----------------------------------------------------------------------------
(* C2 *)

\* C2: once a validate or instantiate call has raised, it stays the last
\* client call of the run: nothing is sent after it, for no entity of no tier.
C2_FailFast ==
    \A k \in CallIds : HasRaised(k) => k = Len(calls)

\* The validate of the only server raised, the data tier has a database
\* waiting, and the run is over.
C2_Witness ==
    /\ pc = "raised"
    /\ Len(servers) = 1
    /\ Len(databases) = 1
    /\ Len(calls) = 1
    /\ IsValidate(1, 1, 1)
    /\ HasRaised(1)

-----------------------------------------------------------------------------
(* C3 *)

\* C3: when a tier of N entities has been left and validate returned
\* valid = false for exactly one entity i of it, then i was not instantiated,
\* every entity behind i was attempted and the tier got N - 1 instantiate calls.
C3_FailSoft ==
    \A t \in Tiers :
        (TierLeft(t) /\ Cardinality(Rejected(t)) = 1) =>
            LET N == Len(EntitiesOf(t))
                i == CHOOSE e \in Rejected(t) : TRUE
            IN  /\ \A k \in CallIds : ~IsInstantiate(k, t, i)
                /\ \A e \in (i + 1)..N : e \in Attempted(t)
                /\ Cardinality(InstantiateIds(t)) = N - 1

\* The web tier is done; of its servers only the first was rejected.
C3_Witness ==
    /\ TierLeft(1)
    /\ Len(servers) >= 2
    /\ Rejected(1) = {1}
    /\ Cardinality(InstantiateIds(1)) = Len(servers) - 1

-----------------------------------------------------------------------------
(* C4 *)

\* C4: the tiers start in the order web, application, data, secure resources,
\* each at most once; a call belongs to a tier that has started, the call in
\* progress to the one started last; and where a call of a later tier exists,
\* every call of an earlier tier was sent before it and has come back.
C4_TierOrder ==
    /\ \A n \in 1..Len(TierStarts) : TierStarts[n] = n
    /\ \A k \in CallIds : calls[k].tier <= Len(TierStarts)
    /\ Outstanding > 0 => calls[Len(calls)].tier = Len(TierStarts)
    /\ \A j, k \in CallIds :
           calls[j].tier < calls[k].tier => j < k /\ j <= Len(returns)

\* A finished run that made calls in two tiers.
C4_Witness ==
    /\ pc = "returned"
    /\ Cardinality({ calls[k].tier : k \in CallIds }) >= 2

-----------------------------------------------------------------------------
(* C5 *)

\* C5: a run with a ServiceError never logs the completion message and ends
\* with "Deployment failed" logged and the exception leaving main(); a run
\* without one does not stop before main() returns, which it does with all
\* four tiers left and the completion message logged last.
C5_RunOutcome ==
    /\ ~NoServiceError => LogIds(CompletedFmt) = {} /\ pc \in {"except", "raised"}
    /\ pc = "raised" =>
           /\ ~NoServiceError
           /\ exc \in ServiceErrors
           /\ log[Len(log)] = [level |-> "ERROR", fmt |-> FailedFmt, args |-> <<exc>>]
    /\ pc = "returned" =>
           /\ NoServiceError
           /\ \A t \in Tiers : TierLeft(t)
           /\ log[Len(log)].fmt = CompletedFmt
           /\ LogIds(FailedFmt) = {}
    /\ pc \notin {"returned", "raised"} => ENABLED Next

\* A run that deployed one entity and then failed on the next call.
C5_Witness ==
    /\ pc = "raised"
    /\ Len(calls) >= 2
    /\ HasRaised(Len(calls))
    /\ \E k \in CallIds : calls[k].op = "instantiate" /\ HasReturned(k)

-----------------------------------------------------------------------------
(* C6 *)

\* The IPs the dependencies of service e of the tier stand for: the listed
\* names that some service of the tier bears, in the order listed, each
\* replaced by the IP of the service of that name.
ResolvedIps(e) ==
    LET deps == Get(services[e], "dependencies", <<>>)
        present == SelectSeq(deps, LAMBDA n :
                       \E j \in DOMAIN services : services[j].name = n)
    IN  [ m \in 1..Len(present) |->
            services[CHOOSE j \in DOMAIN services : services[j].name = present[m]].ip ]

\* C6: every instantiate of a service carries, comma-joined, exactly the IPs
\* of its dependency names that name a service of the tier, in the order the
\* names are listed; names absent from the tier are left out, and once the
\* tier is left every service has been instantiated, whatever it depends on.
C6_DependencyResolution ==
    /\ \A k \in InstantiateIds(2) :
           calls[k].json.variables.allowed_services
               = Join(",", ResolvedIps(calls[k].entity))
    /\ TierLeft(2) =>
           \A e \in 1..Len(services) : \E k \in CallIds : IsInstantiate(k, 2, e)

\* Two services went through.  The first lists the second, an absent name
\* and itself; the second lists only the absent name and got the empty list.
C6_Witness ==
    /\ TierLeft(2)
    /\ Len(services) = 2
    /\ Get(services[1], "dependencies", <<>>) = <<"svc-2", "ghost", "svc-1">>
    /\ Get(services[2], "dependencies", <<>>) = <<"ghost">>
    /\ \E k \in CallIds :
           /\ IsInstantiate(k, 2, 1)
           /\ calls[k].json.variables.allowed_services = "10.0.2.12,10.0.2.11"
    /\ \E k \in CallIds :
           /\ IsInstantiate(k, 2, 2)
           /\ calls[k].json.variables.allowed_services = ""

-----------------------------------------------------------------------------
(* C7 *)

\* C7: a database without a port of its own is instantiated with db_port
\* 3306 for mysql, 5432 for postgresql, 27017 for mongodb, 6379 for redis and
\* 3306 for every other engine type.
C7_PortDefaulting ==
    \A k \in InstantiateIds(3) :
        LET db == databases[calls[k].entity]
        IN  "port" \notin DOMAIN db =>
                calls[k].json.variables.db_port =
                    CASE db.type = "mysql" -> 3306
                      [] db.type = "postgresql" -> 5432
                      [] db.type = "mongodb" -> 27017
                      [] db.type = "redis" -> 6379
                      [] OTHER -> 3306

\* An oracle database without a port was instantiated with db_port 3306.
C7_Witness ==
    \E k \in InstantiateIds(3) :
        /\ databases[calls[k].entity].type = "oracle"
        /\ "port" \notin DOMAIN databases[calls[k].entity]
        /\ calls[k].json.variables.db_port = 3306
        /\ HasReturned(k)

-----------------------------------------------------------------------------
(* C8 *)

ReturnedInstantiateIds ==
    { k \in CallIds : calls[k].op = "instantiate" /\ HasReturned(k) }

EntityName(k) == EntitiesOf(calls[k].tier)[calls[k].entity].name

\* What the deployer reports, read off its log: one "Created" line for each
\* success and one "Validation failed" line for each failure.
ReportedSuccesses == Cardinality(LogIds(CreatedFmt))
ReportedRules ==
    Sum([n \in LogIds(CreatedFmt) |-> log[n].args[1]], LogIds(CreatedFmt))
ReportedFailures == Cardinality(LogIds(RejectedFmt))

-----------------------------------------------------------------------------
(* C9 *)

\* C9: at most one request to the Template Service is outstanding; a request
\* is outstanding exactly while the program waits in a client call.
C9_OneOutstanding ==
    /\ Outstanding \in {0, 1}
    /\ Outstanding = 1 <=> AwaitingResponse

\* The second request of a run is out and the first has come back.
C9_Witness ==
    /\ Len(calls) = 2
    /\ Len(returns) = 1
    /\ HasReturned(1)

-----------------------------------------------------------------------------
(* C10 *)

\* C10: only a ServiceError takes a run to the except clause; a tier that is
\* left has had every one of its entities attempted, however many of them
\* failed validation, and a run that returns has been through all four tiers.
C10_ValidationNeverAborts ==
    /\ pc \in {"except", "raised"} => ~NoServiceError
    /\ \A t \in Tiers :
           TierLeft(t) => Attempted(t) = 1..Len(EntitiesOf(t))
    /\ pc = "returned" =>
           /\ TierStarts = <<1, 2, 3, 4>>
           /\ \A t \in Tiers : TierLeft(t)

\* Both servers of the web tier failed validation and the run returned.
C10_Witness ==
    /\ pc = "returned"
    /\ Len(servers) = 2
    /\ Rejected(1) = {1, 2}
    /\ InstantiateIds(1) = {}

-----------------------------------------------------------------------------
(* C11 *)

\* The orders the positions 1..n can be put in
Orders(n) ==
    { p \in [1..n -> 1..n] : \A i, j \in 1..n : p[i] = p[j] => i = j }

\* C11: from the start of the application tier on, so before its first
\* client call and in every state behind it, the name-to-IP map holds every
\* service of the tier with its IP; what a service is instantiated with is
\* resolved against that map, a dependency behind it in the tier included;
\* and the resolution is the same for every order of the tier's services.
C11_OrderIndependentResolution ==
    Len(TierStarts) >= 2 =>
        /\ DOMAIN service_ips = { services[j].name : j \in DOMAIN services }
        /\ \A j \in DOMAIN services : service_ips[services[j].name] = services[j].ip
        /\ \A k \in InstantiateIds(2) :
               LET e == calls[k].entity
                   deps == Get(services[e], "dependencies", <<>>)
               IN  /\ calls[k].json.variables.allowed_services
                          = Join(",", ResolvedIps(e))
                   /\ \A d \in DOMAIN deps : \A j \in DOMAIN services :
                          (j > e /\ services[j].name = deps[d]) =>
                              \E m \in DOMAIN ResolvedIps(e) :
                                  ResolvedIps(e)[m] = services[j].ip
        /\ \A p \in Orders(Len(services)) : \A e \in DOMAIN services :
               AllowedIps(services[e],
                          ServiceIps([j \in DOMAIN services |-> services[p[j]]]))
                   = AllowedIps(services[e], service_ips)

\* The first of two services lists the second; its request is out with the
\* second's IP in it, and the second has not been dealt with yet.
C11_Witness ==
    /\ pc = "ms_instantiate"
    /\ idx = 1
    /\ Len(services) = 2
    /\ Get(services[1], "dependencies", <<>>) = <<"svc-1", "svc-2">>
    /\ InstantiateIds(2) = {Len(calls)}
    /\ calls[Len(calls)].json.variables.allowed_services = "10.0.2.11,10.0.2.12"

-----------------------------------------------------------------------------
(* C12 *)

\* Entity e of tier t was instantiated.
Instantiated(t, e) == \E k \in CallIds : IsInstantiate(k, t, e)

\* C12: the calls of a tier follow the tier's entity order.  Of two calls for
\* the same entity the first is its validate, which returned valid = true,
\* and the second its instantiate; a call for a later entity exists only when
\* every call for the earlier ones has come back; and an entity the tier has
\* gone past, or of a tier that is left, is instantiated unless its
\* validation failed.  (A ServiceError ends the run, see C2.)
C12_EntityOrder ==
    /\ \A j, k \in CallIds :
           (j < k /\ calls[j].tier = calls[k].tier) =>
               /\ calls[j].entity <= calls[k].entity
               /\ HasReturned(j)
               /\ calls[j].entity = calls[k].entity =>
                      /\ calls[j].op = "validate"
                      /\ calls[k].op = "instantiate"
                      /\ ValidatedAs(j, TRUE)
    /\ \A k \in CallIds :
           /\ calls[k].entity \in 1..Len(EntitiesOf(calls[k].tier))
           /\ \A e \in 1..(calls[k].entity - 1) :
                  Instantiated(calls[k].tier, e) \/ e \in Rejected(calls[k].tier)
    /\ \A t \in Tiers :
           TierLeft(t) =>
               \A e \in 1..Len(EntitiesOf(t)) :
                   Instantiated(t, e) \/ e \in Rejected(t)

\* Two servers: validate and instantiate of the first, then validate and
\* instantiate of the second, all four returned.
C12_Witness ==
    /\ Len(servers) = 2
    /\ Len(calls) = 4
    /\ Len(returns) = 4
    /\ IsValidate(1, 1, 1) /\ IsInstantiate(2, 1, 1)
    /\ IsValidate(3, 1, 2) /\ IsInstantiate(4, 1, 2)
    /\ HasReturned(4)

-----------------------------------------------------------------------------
(* C13 *)

\* C13: no entity gets a second validate or a second instantiate, whether
\* the first came back valid, invalid or with a ServiceError.
C13_NoRetries ==
    \A j, k \in CallIds :
        ( /\ calls[j].op = calls[k].op
          /\ calls[j].tier = calls[k].tier
          /\ calls[j].entity = calls[k].entity ) => j = k

\* The first server failed validation, the validate of the second raised,
\* and the run is over with one validate for each.
C13_Witness ==
    /\ pc = "raised"
    /\ Len(servers) = 2
    /\ Len(calls) = 2
    /\ IsValidate(1, 1, 1) /\ ValidatedAs(1, FALSE)
    /\ IsValidate(2, 1, 2) /\ HasRaised(2)

-----------------------------------------------------------------------------
(* C14 *)

\* The switch of tier t in the topology
SwitchOf(t) ==
    CASE t = 1 -> infrastructure.web_tier.switch
      [] t = 2 -> infrastructure.app_tier.switch
      [] t = 3 -> infrastructure.data_tier.switch
      [] t = 4 -> infrastructure.secure_resources.switch

InstantiateCallIds == { k \in CallIds : calls[k].op = "instantiate" }

\* C14 as claimed: every instantiate request carries target_switch, equal to
\* the switch of the entity's tier whatever that switch is, the empty string
\* included, and has dry_run = false.
C14_TargetSwitchAlways ==
    \A k \in InstantiateCallIds :
        /\ "target_switch" \in DOMAIN calls[k].json
        /\ calls[k].json.target_switch = SwitchOf(calls[k].tier)
        /\ calls[k].json.dry_run = FALSE

\* C14 as amended: every instantiate request has dry_run = false; when the
\* switch of the entity's tier is not empty the request carries it as
\* target_switch, and when it is the empty string the request has no
\* target_switch key at all.  No request carries another tier's switch.
C14_TargetSwitchWhenNamed ==
    \A k \in InstantiateCallIds :
        /\ calls[k].json.dry_run = FALSE
        /\ IF SwitchOf(calls[k].tier) # ""
           THEN /\ "target_switch" \in DOMAIN calls[k].json
                /\ calls[k].json.target_switch = SwitchOf(calls[k].tier)
           ELSE "target_switch" \notin DOMAIN calls[k].json

\* A database was instantiated on ls-data after a server was on ls-web.
C14_Witness ==
    /\ SwitchOf(1) = "ls-web"
    /\ SwitchOf(3) = "ls-data"
    /\ \E k \in InstantiateIds(3) :
           /\ HasReturned(k)
           /\ "target_switch" \in DOMAIN calls[k].json
           /\ calls[k].json.target_switch = "ls-data"
           /\ calls[k].json.dry_run = FALSE
    /\ \E k \in InstantiateIds(1) :
           /\ HasReturned(k)
           /\ "target_switch" \in DOMAIN calls[k].json
           /\ calls[k].json.target_switch = "ls-web"

-----------------------------------------------------------------------------
(* C15 *)

\* C15: a server is instantiated with the template and the very variables
\* its validate call was made with, key for key, and those are the server's
\* own values with "0.0.0.0/0", True and "10.0.100.0/24" where the server
\* leaves allowed_sources, enable_ssh or ssh_sources out.
C15_DeployedAsValidated ==
    \A k \in InstantiateIds(1) :
        LET server == servers[calls[k].entity]
            sent == calls[k].json.variables
        IN  /\ \E j \in 1..(k - 1) :
                   /\ IsValidate(j, 1, calls[k].entity)
                   /\ calls[j].json.variables = sent
                   /\ calls[j].json.template_id = calls[k].json.template_id
            /\ DOMAIN sent = {"server_ip", "allowed_sources", "enable_ssh", "ssh_sources"}
            /\ sent.server_ip = server.ip
            /\ sent.allowed_sources =
                   IF "allowed_sources" \in DOMAIN server
                   THEN server.allowed_sources ELSE "0.0.0.0/0"
            /\ sent.enable_ssh =
                   IF "enable_ssh" \in DOMAIN server THEN server.enable_ssh ELSE TRUE
            /\ sent.ssh_sources =
                   IF "ssh_sources" \in DOMAIN server
                   THEN server.ssh_sources ELSE "10.0.100.0/24"

\* A server that sets none of the optional keys was validated and then
\* instantiated, both times with the three defaults.
C15_Witness ==
    /\ Len(calls) >= 2
    /\ IsValidate(1, 1, 1)
    /\ IsInstantiate(2, 1, 1)
    /\ HasReturned(2)
    /\ DOMAIN servers[1] = {"name", "ip"}
    /\ calls[2].json.variables =
           [server_ip |-> "10.0.1.11", allowed_sources |-> "0.0.0.0/0",
            enable_ssh |-> TRUE, ssh_sources |-> "10.0.100.0/24"]
    /\ calls[1].json.variables = calls[2].json.variables

-----------------------------------------------------------------------------
(* C16 *)

\* C16: the completion message is logged at most once, and where it is
\* logged it is the last line, no ServiceError has occurred, the secure
\* resources tier is left with all its calls returned and main() has
\* returned; a run without ServiceError does not stop before it returns, and
\* when it has returned the message is there, validation failures or not.
C16_CompletionMessage ==
    /\ Cardinality(LogIds(CompletedFmt)) <= 1
    /\ LogIds(CompletedFmt) # {} =>
           /\ LogIds(CompletedFmt) = {Len(log)}
           /\ NoServiceError
           /\ pc = "returned"
           /\ Outstanding = 0
           /\ TierLeft(4)
           /\ \A e \in 1..Len(resources) :
                  \E k \in CallIds : IsInstantiate(k, 4, e) /\ HasReturned(k)
    /\ pc = "returned" => LogIds(CompletedFmt) # {}
    /\ (NoServiceError /\ pc # "returned") => ENABLED Next

\* A server failed validation, a secure resource was instantiated, and the
\* run returned with the completion message as its last line.
C16_Witness ==
    /\ pc = "returned"
    /\ Rejected(1) = {1}
    /\ InstantiateIds(1) = {}
    /\ \E k \in InstantiateIds(4) : HasReturned(k)
    /\ log[Len(log)].fmt = CompletedFmt
    /\ LogIds(RejectedFmt) # {}

====
